---- MODULE Spec2Model ----
(***************************************************************************)
(* Financial Protection AI Agent backend (src/main.py, src/schemas.py).    *)
(*                                                                         *)
(* analyze_financial_protection is a pure function and is modelled as an   *)
(* operator built from one operator per stage of the function body.        *)
(* analyze_finances (POST /api/analyze) is modelled as a step machine, one *)
(* action per create_document call, each of which may raise.               *)
(*                                                                         *)
(* Numbers.  The float fields hold integer values here.  On this domain    *)
(* the comparisons against x*1.1, x*0.1, target and target/2 of the code   *)
(* agree with exact arithmetic and are written cross-multiplied; the one   *)
(* place where IEEE-754 double rounding changes a result is the truncating *)
(* int(...) of the emergency-fund term, see FloatTruncated.  float('-inf') *)
(* is the value NegInf.  Derived strings (Alert.message, the summary) and  *)
(* the Transaction fields the function never reads are left out.           *)
(***************************************************************************)
EXTENDS Integers, Sequences, FiniteSets, TLC

VARIABLES pc, profile, transactions, result, idx, calls, response

vars == <<pc, profile, transactions, result, idx, calls, response>>

----------------------------------------------------------------------------
(* Bounds of the input domain *)

MaxIncome == 5

MaxExpenses == 5

MaxSavings == 10

MaxDependents == 1

MaxTx == 3

----------------------------------------------------------------------------
(* Values *)

\* float('-inf'): a savings value an unvalidated profile can carry (it is
\* also what -1e308 / 1e-10 evaluates to).
NegInf == -1000000

\* Optional[str] category: None
None == "<None>"

\* truthiness of an Optional[str]: None and "" are falsy
Truthy(s) == s # None /\ s # ""

\* truthiness of a float: 0.0 is falsy
TruthyNum(x) == x # 0

Max(a, b) == IF a >= b THEN a ELSE b

Min(a, b) == IF a <= b THEN a ELSE b

----------------------------------------------------------------------------
(* schemas.py *)

\* FinancialProfile field constraints (ge=0) enforced when a request is parsed
Validated(p) ==
    /\ p.monthly_income >= 0
    /\ p.monthly_expenses >= 0
    /\ p.savings >= 0
    /\ p.dependents >= 0

----------------------------------------------------------------------------
(* analyze_financial_protection: cash flow *)

monthly_net(p) == p.monthly_income - p.monthly_expenses

\* savings / expenses as a fraction num/den with den > 0; 12.0 when
\* expenses <= 0; -inf / positive = -inf
burn_rate_months(p) ==
    IF p.monthly_expenses > 0
    THEN IF p.savings = NegInf
         THEN [num |-> NegInf, den |-> 1]
         ELSE [num |-> p.savings, den |-> p.monthly_expenses]
    ELSE [num |-> 12, den |-> 1]

IsNegInf(b) == b.num = NegInf

\* b < k for a fraction b and an integer k
FracLess(b, k) == IsNegInf(b) \/ b.num < k * b.den

\* b < k/2
FracLessHalf(b, k) == IsNegInf(b) \/ 2 * b.num < k * b.den

----------------------------------------------------------------------------
(* analyze_financial_protection: transaction aggregation *)

\* total_debits without the amount > 0 test: inflows are subtracted
RECURSIVE total_debits_signed(_)
total_debits_signed(txs) ==
    IF txs = << >> THEN 0
    ELSE txs[Len(txs)].amount
             + total_debits_signed(SubSeq(txs, 1, Len(txs) - 1))

RECURSIVE total_debits(_)
total_debits(txs) ==
    IF txs = << >> THEN 0
    ELSE LET t == txs[Len(txs)]
             rest == total_debits(SubSeq(txs, 1, Len(txs) - 1))
         IN  IF t.amount > 0 THEN rest + t.amount ELSE rest

\* dict.get(key, default)
Get(d, k, default) == IF k \in DOMAIN d THEN d[k] ELSE default

RECURSIVE category_totals(_)
category_totals(txs) ==
    IF txs = << >> THEN [c \in {} |-> 0]
    ELSE LET t == txs[Len(txs)]
             rest == category_totals(SubSeq(txs, 1, Len(txs) - 1))
         IN  IF t.amount > 0 /\ Truthy(t.category)
             THEN [c \in DOMAIN rest \cup {t.category} |->
                      IF c = t.category THEN Get(rest, c, 0) + t.amount
                      ELSE rest[c]]
             ELSE rest

----------------------------------------------------------------------------
(* analyze_financial_protection: alerts *)

Alert(email, type, severity, data) ==
    [user_email |-> email, alert_type |-> type, severity |-> severity,
     data |-> data]

EmptyDict == [k \in {} |-> 0]

\* target_months with an unrecognised risk_tolerance treated as the default
target_months_default_medium(p) ==
    IF p.risk_tolerance = "high" THEN 3
    ELSE IF p.risk_tolerance = "low" THEN 9 ELSE 6

target_months(p) ==
    IF p.risk_tolerance = "high" THEN 3
    ELSE IF p.risk_tolerance = "medium" THEN 6 ELSE 9

EmergencyAlert(p) ==
    LET b == burn_rate_months(p)
        t == target_months(p)
    IN  IF FracLess(b, t)
        THEN << Alert(p.email, "emergency_fund_shortfall",
                      IF FracLessHalf(b, t) THEN "high" ELSE "medium",
                      [shortfall |-> Max(0, t * p.monthly_expenses - p.savings),
                       target_months |-> t]) >>
        ELSE << >>

HealthAlert(p) ==
    IF ~p.insurance_health
    THEN << Alert(p.email, "missing_health_insurance", "high", EmptyDict) >>
    ELSE << >>

RentersAlert(p) ==
    IF ~p.insurance_renters
    THEN << Alert(p.email, "missing_renters_insurance", "medium", EmptyDict) >>
    ELSE << >>

\* AutoAlert without the total_debits > 0 test
AutoAlertAnyDebits(p, txs) ==
    IF ~p.insurance_auto
    THEN << Alert(p.email, "missing_auto_insurance", "medium", EmptyDict) >>
    ELSE << >>

AutoAlert(p, txs) ==
    IF ~p.insurance_auto /\ total_debits(txs) > 0
    THEN << Alert(p.email, "missing_auto_insurance", "medium", EmptyDict) >>
    ELSE << >>

LifeAlert(p) ==
    IF p.dependents > 0 /\ ~p.insurance_life
    THEN << Alert(p.email, "missing_life_insurance", "high",
                  [dependents |-> p.dependents]) >>
    ELSE << >>

\* total_debits > income * 1.1
OverspendingAlert(p, txs) ==
    IF p.monthly_income > 0 /\ 10 * total_debits(txs) > 11 * p.monthly_income
    THEN << Alert(p.email, "overspending", "medium",
                  [income |-> p.monthly_income, spend |-> total_debits(txs)]) >>
    ELSE << >>

\* BudgetAlert with spent < limit * 1.1 for the low severity
BudgetAlertStrict(p, txs, item) ==
    LET spent == Get(category_totals(txs), item.cat, 0)
    IN  IF TruthyNum(item.limit) /\ spent > item.limit
        THEN << Alert(p.email, "budget_exceeded",
                      IF 10 * spent < 11 * item.limit THEN "low" ELSE "medium",
                      [category |-> item.cat, spent |-> spent,
                       limit |-> item.limit]) >>
        ELSE << >>

\* one budgets item; spent <= limit * 1.1 decides the severity
BudgetAlert(p, txs, item) ==
    LET spent == Get(category_totals(txs), item.cat, 0)
    IN  IF TruthyNum(item.limit) /\ spent > item.limit
        THEN << Alert(p.email, "budget_exceeded",
                      IF 10 * spent <= 11 * item.limit THEN "low" ELSE "medium",
                      [category |-> item.cat, spent |-> spent,
                       limit |-> item.limit]) >>
        ELSE << >>

\* profile.budgets is an ordered mapping, held as the sequence of its items;
\* None and {} are both falsy and both the empty sequence
RECURSIVE BudgetAlerts(_, _, _)
BudgetAlerts(p, txs, items) ==
    IF items = << >> THEN << >>
    ELSE BudgetAlert(p, txs, Head(items)) \o BudgetAlerts(p, txs, Tail(items))

\* Alerts with the life rule evaluated before the auto rule
AlertsLifeFirst(p, txs) ==
    EmergencyAlert(p) \o HealthAlert(p) \o RentersAlert(p) \o LifeAlert(p)
        \o AutoAlert(p, txs) \o OverspendingAlert(p, txs)
        \o BudgetAlerts(p, txs, p.budgets)

Alerts(p, txs) ==
    EmergencyAlert(p) \o HealthAlert(p) \o RentersAlert(p) \o AutoAlert(p, txs)
        \o LifeAlert(p) \o OverspendingAlert(p, txs)
        \o BudgetAlerts(p, txs, p.budgets)

----------------------------------------------------------------------------
(* analyze_financial_protection: score *)

\* The inputs <<target_months, expenses, savings>> (expenses in 1..8, savings
\* in -4..40) for which the double value of
\* (target_months - savings/expenses) / target_months * 40 lies just below the
\* integer that exact arithmetic gives, so that int() yields one less
\* (savings=3, expenses=5, target 3: 31.999999999999996 -> 31).
FloatTruncated ==
    { <<3, 5, 3>>, <<3, 5, 9>>, <<6, 5, -3>>, <<6, 5, 6>>, <<6, 5, 18>>,
      <<6, 5, 27>>, <<9, 5, 27>>, <<9, 5, 36>> }

\* EmergencyDeduction without max(0, ...): a surplus raises the score
EmergencyDeductionNoFloor(p) ==
    LET b == burn_rate_months(p)
        t == target_months(p)
        n == t * b.den - b.num
        d == t * b.den
    IN  IF n <= 0 THEN 0 - ((40 * (0 - n)) \div d)
        ELSE (40 * n) \div d
                 - (IF <<t, b.den, b.num>> \in FloatTruncated THEN 1 ELSE 0)

\* int(max(0, (target_months - burn_rate_months) / target_months) * 40),
\* for a finite burn_rate_months
EmergencyDeduction(p) ==
    LET b == burn_rate_months(p)
        t == target_months(p)
        n == t * b.den - b.num
        d == t * b.den
    IN  IF n <= 0 THEN 0
        ELSE (40 * n) \div d
                 - (IF <<t, b.den, b.num>> \in FloatTruncated THEN 1 ELSE 0)

\* int(inf) raises OverflowError
ScoreRaises(p) == IsNegInf(burn_rate_months(p))

\* missing_insurance counting life cover whatever the dependents
missing_insurance_life_always(p) ==
    (IF ~p.insurance_health THEN 1 ELSE 0)
  + (IF ~p.insurance_renters THEN 1 ELSE 0)
  + (IF ~p.insurance_auto THEN 1 ELSE 0)
  + (IF ~p.insurance_life THEN 1 ELSE 0)

missing_insurance(p) ==
    (IF ~p.insurance_health THEN 1 ELSE 0)
  + (IF ~p.insurance_renters THEN 1 ELSE 0)
  + (IF ~p.insurance_auto THEN 1 ELSE 0)
  + (IF p.dependents > 0 /\ ~p.insurance_life THEN 1 ELSE 0)

\* monthly_net < expenses * 0.1
CashFlowDeduction(p) ==
    IF monthly_net(p) < 0 THEN 20
    ELSE IF 10 * monthly_net(p) < p.monthly_expenses THEN 10 ELSE 0

\* the score before the final clamp
RawScore(p) ==
    100 - EmergencyDeduction(p) - missing_insurance(p) * 10
        - CashFlowDeduction(p)

\* Clamp without the lower bound
ClampUpperOnly(x) == Min(100, x)

Clamp(x) == Max(0, Min(100, x))

----------------------------------------------------------------------------
(* analyze_financial_protection: result *)

\* round(x, 2) of the fraction b, in hundredths (ties to even)
Round2(b) ==
    LET q == (100 * b.num) \div b.den
        r == (100 * b.num) % b.den
    IN  IF 2 * r < b.den THEN q
        ELSE IF 2 * r > b.den THEN q + 1
        ELSE IF q % 2 = 0 THEN q ELSE q + 1

Stats(p, txs) ==
    [monthly_income |-> p.monthly_income,
     monthly_expenses |-> p.monthly_expenses,
     monthly_net |-> monthly_net(p),
     savings |-> p.savings,
     burn_rate_months |-> [num |-> Round2(burn_rate_months(p)), den |-> 100],
     total_spend |-> total_debits(txs)]

\* the AnalysisResult returned, or the exception raised at the score
analyze_financial_protection(p, txs) ==
    IF ScoreRaises(p)
    THEN [status |-> "OverflowError"]
    ELSE [status |-> "ok",
          score |-> Clamp(RawScore(p)),
          alerts |-> Alerts(p, txs),
          stats |-> Stats(p, txs)]

----------------------------------------------------------------------------
(* Input domain *)

RiskValues == {"low", "medium", "high", "aggressive"}

Categories == {"dining", "rent"}

Profile(email, income, expenses, savings, dependents, risk, health, renters, auto, life, budgets) ==
    [email |-> email, monthly_income |-> income, monthly_expenses |-> expenses,
     savings |-> savings, dependents |-> dependents, risk_tolerance |-> risk,
     insurance_health |-> health, insurance_renters |-> renters,
     insurance_auto |-> auto, insurance_life |-> life, budgets |-> budgets]

Tx(category, amount) == [category |-> category, amount |-> amount]

\* sequences over S of length at most n
RECURSIVE SeqsUpTo(_, _)
SeqsUpTo(S, n) ==
    IF n = 0 THEN {<< >>}
    ELSE LET shorter == SeqsUpTo(S, n - 1)
         IN  shorter \cup {Append(q, x) : q \in shorter, x \in S}

TxValues ==
    { Tx(None, 1), Tx("", 1), Tx("dining", -5), Tx("rent", 0),
      Tx("dining", 1), Tx("dining", 11), Tx("rent", 11) }

TxLists == SeqsUpTo(TxValues, MaxTx)

BudgetItems == {[cat |-> c, limit |-> l] : c \in Categories, l \in {0, 1, 10}}

\* ordered mappings: no category twice; one of them has a negative limit
BudgetMaps ==
    {b \in SeqsUpTo(BudgetItems, Cardinality(Categories)) :
        \A i, j \in 1..Len(b) : i # j => b[i].cat # b[j].cat}
        \cup { << [cat |-> "rent", limit |-> -1] >> }

\* a fully covered profile and one that triggers every profile-only rule
Covered(income, auto, budgets) ==
    Profile("a@example.com", income, 0, 0, 0, "medium", TRUE, TRUE, auto, TRUE,
            budgets)

Exposed(income, auto, budgets) ==
    Profile("b@example.com", income, 1, 0, 1, "high", FALSE, FALSE, auto, FALSE,
            budgets)

AlertProfiles ==
    {Covered(10, auto, b) : auto \in BOOLEAN, b \in BudgetMaps}
        \cup {Covered(0, FALSE, b) : b \in BudgetMaps}
        \cup {Exposed(10, FALSE, b) : b \in BudgetMaps}

\* the scenarios of the specification's section 8
ScenarioA ==
    Profile("a@example.com", 5000, 4000, 24000, 0, "medium", FALSE, FALSE,
            FALSE, FALSE, << >>)

ScenarioB ==
    Profile("a@example.com", 0, 1000, 0, 0, "medium", TRUE, TRUE, TRUE, TRUE,
            << >>)

ScenarioC ==
    [profile |-> Profile("a@example.com", 5000, 4000, 24000, 0, "medium",
                         TRUE, TRUE, TRUE, TRUE,
                         << [cat |-> "dining", limit |-> 500] >>),
     transactions |-> << Tx("dining", 600) >>]

\* requests to POST /api/analyze: parsed, hence validated
ApiTxLists == SeqsUpTo({Tx(None, -5), Tx("dining", 1), Tx("rent", 11)}, MaxTx)

ApiBudgets ==
    { << >>, << [cat |-> "dining", limit |-> 1] >>,
      << [cat |-> "rent", limit |-> 10], [cat |-> "dining", limit |-> 1] >> }

ApiRequests ==
    {r \in {[profile |-> p, transactions |-> t] :
               p \in {Covered(income, auto, b) : income \in {0, 10},
                          auto \in BOOLEAN, b \in ApiBudgets}
                      \cup {Exposed(10, FALSE, b) : b \in ApiBudgets},
               t \in ApiTxLists} :
        Validated(r.profile)}

----------------------------------------------------------------------------
(* State machine *)

NoResult == [status |-> "none"]

InitCommon ==
    /\ result = NoResult
    /\ idx = 0
    /\ calls = << >>
    /\ response = NoResult

\* profiles that vary the numbers, validated or not, with no transactions
ScoreInit ==
    /\ \E income \in 0..MaxIncome, expenses \in -1..MaxExpenses,
          savings \in {NegInf} \cup (-1..MaxSavings),
          dependents \in -1..MaxDependents, risk \in RiskValues,
          health \in BOOLEAN, renters \in BOOLEAN, auto \in BOOLEAN,
          life \in BOOLEAN :
          profile = Profile("a@example.com", income, expenses, savings,
                            dependents, risk, health, renters, auto, life, << >>)
    /\ transactions = << >>

\* requests that vary the transactions and the budgets
AlertInit ==
    /\ profile \in AlertProfiles
    /\ transactions \in TxLists

ScenarioInit ==
    \/ profile \in {ScenarioA, ScenarioB} /\ transactions = << >>
    \/ profile = ScenarioC.profile /\ transactions = ScenarioC.transactions

\* a direct call of analyze_financial_protection
CoreInit ==
    /\ pc = "call"
    /\ ScoreInit \/ AlertInit \/ ScenarioInit
    /\ InitCommon

Call ==
    /\ pc = "call"
    /\ result' = analyze_financial_protection(profile, transactions)
    /\ pc' = IF result'.status = "ok" THEN "returned" ELSE "raised"
    /\ UNCHANGED <<profile, transactions, idx, calls, response>>

CoreNext == Call

CoreSpec == CoreInit /\ [][CoreNext]_vars

\* POST /api/analyze
Init ==
    /\ pc = "persist_profile"
    /\ \E r \in ApiRequests : profile = r.profile /\ transactions = r.transactions
    /\ InitCommon

\* one create_document call and its outcome
CallRecord(collection, doc, ok) ==
    [collection |-> collection, doc |-> doc, ok |-> ok]

\* create_document("financialprofile", req.profile)
PersistProfile ==
    /\ pc = "persist_profile"
    /\ \E ok \in BOOLEAN :
          /\ calls' = Append(calls, CallRecord("financialprofile", profile, ok))
          /\ IF ok /\ Len(transactions) > 0
             THEN pc' = "persist_transaction" /\ idx' = 1
             ELSE pc' = "analyze" /\ idx' = 0
    /\ UNCHANGED <<profile, transactions, result, response>>

\* PersistTransaction with the try inside the loop: a failure skips one item
PersistTransactionContinue ==
    /\ pc = "persist_transaction"
    /\ \E ok \in BOOLEAN :
          /\ calls' = Append(calls, CallRecord("transaction", transactions[idx], ok))
          /\ IF idx < Len(transactions)
             THEN pc' = "persist_transaction" /\ idx' = idx + 1
             ELSE pc' = "analyze" /\ idx' = 0
    /\ UNCHANGED <<profile, transactions, result, response>>

\* create_document("transaction", t), one iteration of the loop
PersistTransaction ==
    /\ pc = "persist_transaction"
    /\ \E ok \in BOOLEAN :
          /\ calls' = Append(calls, CallRecord("transaction", transactions[idx], ok))
          /\ IF ok /\ idx < Len(transactions)
             THEN pc' = "persist_transaction" /\ idx' = idx + 1
             ELSE pc' = "analyze" /\ idx' = 0
    /\ UNCHANGED <<profile, transactions, result, response>>

\* result = analyze_financial_protection(req.profile, req.transactions),
\* outside any try block
Analyze ==
    /\ pc = "analyze"
    /\ result' = analyze_financial_protection(profile, transactions)
    /\ pc' = IF result'.status = "ok" THEN "persist_result" ELSE "raised"
    /\ UNCHANGED <<profile, transactions, idx, calls, response>>

\* PersistResult without the try: a failed write propagates
PersistResultUncaught ==
    /\ pc = "persist_result"
    /\ \E ok \in BOOLEAN :
          /\ calls' = Append(calls, CallRecord("analysisresult", result, ok))
          /\ IF ~ok
             THEN pc' = "raised" /\ idx' = 0
             ELSE IF Len(result.alerts) > 0
                  THEN pc' = "persist_alert" /\ idx' = 1
                  ELSE pc' = "return" /\ idx' = 0
    /\ UNCHANGED <<profile, transactions, result, response>>

\* create_document("analysisresult", result)
PersistResult ==
    /\ pc = "persist_result"
    /\ \E ok \in BOOLEAN :
          /\ calls' = Append(calls, CallRecord("analysisresult", result, ok))
          /\ IF ok /\ Len(result.alerts) > 0
             THEN pc' = "persist_alert" /\ idx' = 1
             ELSE pc' = "return" /\ idx' = 0
    /\ UNCHANGED <<profile, transactions, result, response>>

\* create_document("alert", a), one iteration of the loop
PersistAlert ==
    /\ pc = "persist_alert"
    /\ \E ok \in BOOLEAN :
          /\ calls' = Append(calls, CallRecord("alert", result.alerts[idx], ok))
          /\ IF ok /\ idx < Len(result.alerts)
             THEN pc' = "persist_alert" /\ idx' = idx + 1
             ELSE pc' = "return" /\ idx' = 0
    /\ UNCHANGED <<profile, transactions, result, response>>

\* return result
Return ==
    /\ pc = "return"
    /\ response' = result
    /\ pc' = "done"
    /\ UNCHANGED <<profile, transactions, result, idx, calls>>

Next ==
    \/ PersistProfile
    \/ PersistTransaction
    \/ Analyze
    \/ PersistResult
    \/ PersistAlert
    \/ Return

Spec == Init /\ [][Next]_vars

----------------------------------------------------------------------------
(* Properties *)

Returned == pc = "returned"

\* the alerts of a result with the given type
OfType(r, type) == {i \in 1..Len(r.alerts) : r.alerts[i].alert_type = type}

\* the sum of the amounts of the transactions at the indices I
RECURSIVE SumAmounts(_, _)
SumAmounts(txs, I) ==
    IF I = {} THEN 0
    ELSE LET i == CHOOSE j \in I : TRUE
         IN  txs[i].amount + SumAmounts(txs, I \ {i})

\* the sum of the values of a dict
RECURSIVE SumValues(_)
SumValues(d) ==
    IF DOMAIN d = {} THEN 0
    ELSE LET k == CHOOSE c \in DOMAIN d : TRUE
         IN  d[k] + SumValues([c \in DOMAIN d \ {k} |-> d[c]])

Outflows(txs) == {i \in 1..Len(txs) : txs[i].amount > 0}

InCategory(txs, c) == {i \in Outflows(txs) : txs[i].category = c}

ScenarioAAlerts ==
    /\ OfType(result, "missing_health_insurance") # {}
    /\ OfType(result, "missing_renters_insurance") # {}
    /\ OfType(result, "emergency_fund_shortfall") = {}
    /\ OfType(result, "missing_auto_insurance") = {}
    /\ OfType(result, "missing_life_insurance") = {}

ScenarioAResult ==
    (Returned /\ profile = ScenarioA /\ transactions = << >>) =>
        ScenarioAAlerts /\ result.score = 70

\* C2 as stated: the same alerts and the score 80
ScenarioAScore80 ==
    (Returned /\ profile = ScenarioA /\ transactions = << >>) =>
        ScenarioAAlerts /\ result.score = 80

ScenarioAWitness == Returned /\ profile = ScenarioA /\ transactions = << >>

\* C4: total_debits is the sum of the amounts of exactly the transactions with
\* amount > 0, each category total is the sum of the positive amounts of that
\* category, transactions with amount <= 0 add to neither, and when every
\* outflow has a non-empty category the category totals add up to total_debits.
AggregatorSums ==
    LET pos == Outflows(transactions)
        ct == category_totals(transactions)
    IN  /\ total_debits(transactions) = SumAmounts(transactions, pos)
        /\ DOMAIN ct = {transactions[i].category :
                           i \in {j \in pos : transactions[j].category \notin {None, ""}}}
        /\ \A c \in DOMAIN ct : ct[c] = SumAmounts(transactions, InCategory(transactions, c))
        /\ (\A i \in pos : transactions[i].category \notin {None, ""})
               => SumValues(ct) = total_debits(transactions)
        /\ Returned => result.stats.total_spend = SumAmounts(transactions, pos)

\* an inflow and two categorised outflows have been aggregated
AggregatorWitness ==
    /\ Returned
    /\ Len(transactions) = 3
    /\ \E i \in 1..3 : transactions[i].amount < 0
    /\ Cardinality(DOMAIN category_totals(transactions)) = 2
    /\ \A i \in Outflows(transactions) : transactions[i].category \notin {None, ""}

\* C5: an emergency_fund_shortfall alert is emitted exactly when
\* burn_rate_months (savings/expenses for expenses > 0, else 12) is below
\* target_months (3 high, 6 medium, 9 low or anything else); its severity is
\* high exactly when burn_rate_months < target_months/2, else medium.
\* Scenario B gives a high-severity alert and the score 40.
EmergencyShortfallRule ==
    Returned =>
        LET t == CASE profile.risk_tolerance = "high" -> 3
                   [] profile.risk_tolerance = "medium" -> 6
                   [] OTHER -> 9
            e == profile.monthly_expenses
            s == profile.savings
            below == IF e > 0 THEN s < t * e ELSE 12 < t
            belowHalf == IF e > 0 THEN 2 * s < t * e ELSE 24 < t
            em == OfType(result, "emergency_fund_shortfall")
        IN  /\ (em # {}) <=> below
            /\ \A i \in em : result.alerts[i].severity =
                                 IF belowHalf THEN "high" ELSE "medium"
            /\ profile = ScenarioB =>
                   /\ \E i \in em : result.alerts[i].severity = "high"
                   /\ result.score = 40

\* an unrecognised risk_tolerance with savings between 4.5 and 9 months
EmergencyShortfallWitness ==
    /\ Returned
    /\ profile.risk_tolerance = "aggressive"
    /\ \E i \in OfType(result, "emergency_fund_shortfall") :
           result.alerts[i].severity = "medium"

\* C6: each budgets entry (category, limit) yields exactly one budget_exceeded
\* alert when limit is non-zero and the positive amounts of that category sum
\* to more than limit, and none otherwise; the severity is low when
\* spent <= limit*1.1 and medium above, the data is {category, spent, limit}.
\* Scenario C gives one medium alert with spent 600 and limit 500.
BudgetExceededRule ==
    Returned =>
        /\ \A k \in 1..Len(profile.budgets) :
              LET item == profile.budgets[k]
                  spent == SumAmounts(transactions, InCategory(transactions, item.cat))
                  hits == {i \in OfType(result, "budget_exceeded") :
                              result.alerts[i].data.category = item.cat}
              IN  IF item.limit # 0 /\ spent > item.limit
                  THEN /\ Cardinality(hits) = 1
                       /\ \A i \in hits :
                             /\ result.alerts[i].severity =
                                    IF 10 * spent <= 11 * item.limit
                                    THEN "low" ELSE "medium"
                             /\ result.alerts[i].data =
                                    [category |-> item.cat, spent |-> spent,
                                     limit |-> item.limit]
                  ELSE hits = {}
        /\ \A i \in OfType(result, "budget_exceeded") :
              \E k \in 1..Len(profile.budgets) :
                  profile.budgets[k].cat = result.alerts[i].data.category
        /\ (profile = ScenarioC.profile /\ transactions = ScenarioC.transactions) =>
              /\ Cardinality(OfType(result, "budget_exceeded")) = 1
              /\ \A i \in OfType(result, "budget_exceeded") :
                    /\ result.alerts[i].severity = "medium"
                    /\ result.alerts[i].data =
                           [category |-> "dining", spent |-> 600, limit |-> 500]

\* one budget exceeded by at most 10% and another by more
BudgetExceededWitness ==
    /\ Returned
    /\ \E i, j \in OfType(result, "budget_exceeded") :
           /\ result.alerts[i].severity = "low"
           /\ result.alerts[j].severity = "medium"

RuleOrder ==
    << "emergency_fund_shortfall", "missing_health_insurance",
       "missing_renters_insurance", "missing_auto_insurance",
       "missing_life_insurance", "overspending", "budget_exceeded" >>

Rank(type) == CHOOSE k \in 1..Len(RuleOrder) : RuleOrder[k] = type

BudgetPosition(c) == CHOOSE k \in 1..Len(profile.budgets) : profile.budgets[k].cat = c

AlertOrder ==
    Returned =>
        /\ \A i \in 1..Len(result.alerts) :
              /\ \E k \in 1..Len(RuleOrder) : RuleOrder[k] = result.alerts[i].alert_type
              /\ result.alerts[i].user_email = profile.email
        /\ \A i, j \in 1..Len(result.alerts) :
              i < j =>
                  LET a == result.alerts[i]
                      b == result.alerts[j]
                  IN  \/ Rank(a.alert_type) < Rank(b.alert_type)
                      \/ /\ a.alert_type = "budget_exceeded"
                         /\ b.alert_type = "budget_exceeded"
                         /\ BudgetPosition(a.data.category)
                                < BudgetPosition(b.data.category)

\* every rule has fired, the budget rule twice
AlertOrderWitness ==
    /\ Returned
    /\ Len(result.alerts) = 8
    /\ profile.email = "b@example.com"

\* C10: for a validated profile the call returns, the emergency-fund
\* deduction lies in 0..40 and the unclamped score already lies in 0..100, so
\* the clamp changes nothing; an unclamped score below 0 needs unvalidated
\* input.
ValidatedNeedsNoClamp ==
    Validated(profile) =>
        /\ pc # "raised"
        /\ Returned =>
              /\ EmergencyDeduction(profile) \in 0..40
              /\ RawScore(profile) \in 0..100
              /\ result.score = RawScore(profile)

\* the worst validated case: deductions 40 + 40 + 20
ValidatedWorstCaseWitness ==
    /\ Returned
    /\ Validated(profile)
    /\ EmergencyDeduction(profile) = 40
    /\ missing_insurance(profile) = 4
    /\ CashFlowDeduction(profile) = 20
    /\ result.score = 0

\* C3: whichever create_document calls fail, analyze_finances raises nothing,
\* runs to its return, and returns the value that
\* analyze_financial_protection gives for the request.
PersistenceNeverAffectsResult ==
    /\ pc # "raised"
    /\ pc # "done" => ENABLED Next
    /\ pc = "done" =>
          /\ response.status = "ok"
          /\ response = analyze_financial_protection(profile, transactions)

\* a response returned after a failed input write and a failed output write
PersistenceFailedWitness ==
    /\ pc = "done"
    /\ \E i, j \in 1..Len(calls) :
          /\ calls[i].collection = "transaction" /\ ~calls[i].ok
          /\ calls[j].collection = "alert" /\ ~calls[j].ok

\* the create_document calls made for the inputs and for the outputs
InputCalls == SelectSeq(calls, LAMBDA c : c.collection \in {"financialprofile", "transaction"})

OutputCalls == SelectSeq(calls, LAMBDA c : c.collection \in {"analysisresult", "alert"})

\* the documents of a group, in the order the handler writes them
InputDocs == <<profile>> \o transactions

OutputDocs == <<result>> \o result.alerts

\* a group of calls goes through docs in order and stops at its first failure
InOrderUntilFailure(group, docs) ==
    /\ Len(group) <= Len(docs)
    /\ \A i \in 1..Len(group) :
          /\ group[i].doc = docs[i]
          /\ i < Len(group) => group[i].ok

\* a finished group has tried every document or ended on a failure
GroupComplete(group, docs) ==
    \/ Len(group) = Len(docs)
    \/ Len(group) >= 1 /\ ~group[Len(group)].ok

\* C9: the writes are attempted in the order profile, transactions in list
\* order, result, alerts in result order; the first failure among profile and
\* transactions skips the remaining transactions, the first failure among
\* result and alerts skips the remaining alerts, and a failure in the first
\* group never keeps the result and alert writes from being attempted.
PersistOrder ==
    /\ calls = InputCalls \o OutputCalls
    /\ InOrderUntilFailure(InputCalls, InputDocs)
    /\ Len(InputCalls) >= 1 => InputCalls[1].collection = "financialprofile"
    /\ \A i \in 2..Len(InputCalls) : InputCalls[i].collection = "transaction"
    /\ pc \in {"analyze", "persist_result", "persist_alert", "return", "done"}
          => GroupComplete(InputCalls, InputDocs)
    /\ OutputCalls # << >> =>
          /\ InOrderUntilFailure(OutputCalls, OutputDocs)
          /\ OutputCalls[1].collection = "analysisresult"
          /\ \A i \in 2..Len(OutputCalls) : OutputCalls[i].collection = "alert"
    /\ pc \in {"return", "done"} =>
          OutputCalls # << >> /\ GroupComplete(OutputCalls, OutputDocs)

\* the second transaction write failed, the third was skipped, and the result
\* and two alerts were still written
PersistOrderWitness ==
    /\ pc = "done"
    /\ Len(transactions) = 3
    /\ Len(InputCalls) = 3
    /\ ~InputCalls[3].ok
    /\ Len(OutputCalls) >= 3
    /\ \A i \in 1..Len(OutputCalls) : OutputCalls[i].ok

====
